---- MODULE Spec2Model ----
(***************************************************************************)
(* Model of epdtrainer/netutils/convbasics.py: the convolution building    *)
(* blocks (BaseConv, DWConv, Bottleneck, SPPBottleneck, SPPFBottleneck,    *)
(* CSPLayer, Focus) and their forward passes.                              *)
(*                                                                         *)
(* A tensor is a term: the expression tree of the primitive operations     *)
(* that produced it.  ShapeOf computes the (B,C,H,W) shape the primitives  *)
(* give it, Elem its elements.  The numeric result of an opaque primitive  *)
(* chain (conv, batch-norm, activation, max-pool) is not computed: it is   *)
(* a value the primitive provider returns, drawn by the forward action.    *)
(***************************************************************************)
EXTENDS Integers, Sequences, FiniteSets, TLC

VARIABLES pc, req, blk, err, x, out

vars == <<pc, req, blk, err, x, out>>

---------------------------------------------------------------------------
(* Bounds *)

MaxK == 3
MaxStride == 2
MaxHW == 4
MaxLen == 4
MaxN == 2

Channels == {2, 4}
KSizes == 1..MaxK
Strides == 1..MaxStride
Sizes == 1..MaxHW
Batches == {1}
\* the data an opaque primitive chain returns: 0 the zero tensor, 1 a non-zero one
Pats == {0, 1}
Booleans == {TRUE, FALSE}
ActNames == {"silu", "relu", "lrelu", "gelu"}
\* expansion factors as num / den: 0.5 and 1.0
Expansions == {<<1, 2>>, <<1, 1>>}
\* max-pool kernel sizes: the constructor's tuple, of any length, a pyramid of
\* growing (or equal) sizes
PoolSizes == 2..MaxK
KernelTuples ==
    {ks \in UNION {[1..n -> PoolSizes] : n \in 0..MaxLen} :
        \A i \in 1..Len(ks) : \A j \in i..Len(ks) : ks[i] <= ks[j]}

---------------------------------------------------------------------------
(* Tensors *)

NoTensor == [op |-> "none"]
NoBlock == [kind |-> "none"]
NoRequest == [kind |-> "none"]
BadShape == <<0, 0, 0, 0>>

Input(shape, pat) == [op |-> "input", shape |-> shape, pat |-> pat]

\* the input tensors: every shape, the elements numbered so that all differ
Inputs == {Input(<<b, c, h, w>>, 1) : b \in Batches, c \in Channels, h \in Sizes, w \in Sizes}

\* the inputs that carry the channel count the block was built for
InputsOf(b, kind) ==
    IF b.kind # kind THEN {} ELSE {t \in Inputs : t.shape[2] = b.in_channels}

\* row-major position of an element in a tensor of the given shape
Tag(shape, b, c, h, w) == ((b * shape[2] + c) * shape[3] + h) * shape[4] + w

\* contents of data pattern p: 0 is the zero tensor, 1 numbers the elements
Pattern(p, tag) == IF p = 0 THEN 0 ELSE tag + 1

\* floor((size + 2*padding - kernel_size) / stride) + 1, or 0 when the window does not fit
WindowOut(size, kernel_size, stride, padding) ==
    IF size + 2 * padding < kernel_size THEN 0
    ELSE ((size + 2 * padding - kernel_size) \div stride) + 1

RECURSIVE SumChannels(_)
SumChannels(shapes) ==
    IF shapes = <<>> THEN 0 ELSE shapes[1][2] + SumChannels(Tail(shapes))

CatShape(shapes) ==
    IF shapes = <<>> THEN BadShape
    ELSE IF \E i \in 1..Len(shapes) : shapes[i] = BadShape
                 \/ shapes[i][1] # shapes[1][1]
                 \/ shapes[i][3] # shapes[1][3]
                 \/ shapes[i][4] # shapes[1][4] THEN BadShape
    ELSE <<shapes[1][1], SumChannels(shapes), shapes[1][3], shapes[1][4]>>

RECURSIVE ShapeOf(_)
ShapeOf(t) ==
    IF t.op = "input" THEN t.shape
    ELSE IF t.op \in {"torch.cat", "qat_func.cat"}
    THEN CatShape([i \in 1..Len(t.args) |-> ShapeOf(t.args[i])])
    ELSE LET s == ShapeOf(t.args[1]) IN
    IF s = BadShape THEN BadShape
    ELSE IF t.op = "conv"
    THEN LET h == WindowOut(s[3], t.m.kernel_size, t.m.stride, t.m.padding)
             w == WindowOut(s[4], t.m.kernel_size, t.m.stride, t.m.padding)
         IN IF s[2] # t.m.in_channels \/ h = 0 \/ w = 0 THEN BadShape
            ELSE <<s[1], t.m.out_channels, h, w>>
    ELSE IF t.op = "bn"
    THEN IF s[2] # t.m.num_features THEN BadShape ELSE s
    ELSE IF t.op = "act" THEN s
    ELSE IF t.op = "maxpool"
    THEN LET h == WindowOut(s[3], t.m.kernel_size, t.m.stride, t.m.padding)
             w == WindowOut(s[4], t.m.kernel_size, t.m.stride, t.m.padding)
         IN IF h = 0 \/ w = 0 THEN BadShape ELSE <<s[1], s[2], h, w>>
    ELSE IF t.op \in {"+", "qat_func.add"}
    THEN IF ShapeOf(t.args[2]) # s THEN BadShape ELSE s
    ELSE IF t.op = "slice"
    THEN <<s[1], s[2], (s[3] + 1 - t.row) \div 2, (s[4] + 1 - t.col) \div 2>>
    ELSE BadShape

\* the argument of a concatenation that holds channel c, and c's index in it
RECURSIVE CatPick(_, _)
CatPick(args, c) ==
    LET n == ShapeOf(args[1])[2] IN
    IF c < n \/ Len(args) = 1 THEN <<args[1], c>> ELSE CatPick(Tail(args), c - n)

RECURSIVE Elem(_, _, _, _, _)
Elem(t, b, c, h, w) ==
    IF t.op = "input" THEN Pattern(t.pat, Tag(t.shape, b, c, h, w))
    ELSE IF t.op = "slice" THEN Elem(t.args[1], b, c, 2 * h + t.row, 2 * w + t.col)
    ELSE IF t.op \in {"torch.cat", "qat_func.cat"}
    THEN LET pk == CatPick(t.args, c) IN Elem(pk[1], b, pk[2], h, w)
    ELSE IF t.op \in {"+", "qat_func.add"}
    THEN Elem(t.args[1], b, c, h, w) + Elem(t.args[2], b, c, h, w)
    ELSE Pattern(t.val, Tag(ShapeOf(t), b, c, h, w))

\* the primitive call that raises when t is evaluated: the first call, in
\* evaluation order, whose operands are tensors it rejects
RECURSIVE FailedAt(_)
FailedAt(t) ==
    IF t.op = "input" THEN t
    ELSE LET bad == {i \in 1..Len(t.args) : ShapeOf(t.args[i]) = BadShape}
         IN IF bad = {} THEN t
            ELSE FailedAt(t.args[CHOOSE i \in bad : \A j \in bad : i <= j])

---------------------------------------------------------------------------
(* Primitive modules and calls *)

Conv2d(in_channels, out_channels, kernel_size, stride, padding, groups, bias) ==
    [in_channels |-> in_channels, out_channels |-> out_channels,
     kernel_size |-> kernel_size, stride |-> stride, padding |-> padding,
     groups |-> groups, bias |-> bias]

BatchNorm2d(num_features) == [num_features |-> num_features]

MaxPool2d(kernel_size, stride, padding) ==
    [kernel_size |-> kernel_size, stride |-> stride, padding |-> padding]

conv_call(m, t, r) == [op |-> "conv", m |-> m, val |-> r, args |-> <<t>>]
bn_call(m, t, r) == [op |-> "bn", m |-> m, val |-> r, args |-> <<t>>]
act_call(name, t, r) == [op |-> "act", name |-> name, val |-> r, args |-> <<t>>]
maxpool_call(m, t, r) == [op |-> "maxpool", m |-> m, val |-> r, args |-> <<t>>]
torch_add(a, b) == [op |-> "+", args |-> <<a, b>>]
qat_func_add(a, b) == [op |-> "qat_func.add", args |-> <<a, b>>]
torch_cat(ts) == [op |-> "torch.cat", args |-> ts]
qat_func_cat(ts) == [op |-> "qat_func.cat", args |-> ts]
slice(t, row, col) == [op |-> "slice", row |-> row, col |-> col, args |-> <<t>>]

---------------------------------------------------------------------------
(* get_activation *)

\* get_activation with a default module in place of the raise
get_activation_Fallback(name) ==
    IF name = "relu" THEN [module |-> "ReLU", error |-> ""]
    ELSE IF name = "lrelu" THEN [module |-> "LeakyReLU", error |-> ""]
    ELSE [module |-> "SiLU", error |-> ""]

get_activation(name) ==
    IF name = "silu" THEN [module |-> "SiLU", error |-> ""]
    ELSE IF name = "relu" THEN [module |-> "ReLU", error |-> ""]
    ELSE IF name = "lrelu" THEN [module |-> "LeakyReLU", error |-> ""]
    ELSE [module |-> "", error |-> "AttributeError"]

---------------------------------------------------------------------------
(* BaseConv *)

\* BaseConv.__init__ with pad = ksize - 1, the halving left out
BaseConv_init_NoHalving(in_channels, out_channels, ksize, stride, groups, bias, act) ==
    LET pad == ksize - 1
        a == get_activation(act)
    IN [kind |-> "BaseConv", in_channels |-> in_channels,
        conv |-> Conv2d(in_channels, out_channels, ksize, stride, pad, groups, bias),
        bn |-> BatchNorm2d(out_channels),
        act |-> a.module,
        error |-> a.error]

BaseConv_init(in_channels, out_channels, ksize, stride, groups, bias, act) ==
    LET pad == (ksize - 1) \div 2
        a == get_activation(act)
    IN [kind |-> "BaseConv", in_channels |-> in_channels,
        conv |-> Conv2d(in_channels, out_channels, ksize, stride, pad, groups, bias),
        bn |-> BatchNorm2d(out_channels),
        act |-> a.module,
        error |-> a.error]

BaseConv_forward(self, t, r) == act_call(self.act, bn_call(self.bn, conv_call(self.conv, t, r), r), r)

\* BaseConv.fuseforward that still calls the batch-norm
BaseConv_fuseforward_WithBn(self, t, r) ==
    act_call(self.act, bn_call(self.bn, conv_call(self.conv, t, r), r), r)

BaseConv_fuseforward(self, t, r) == act_call(self.act, conv_call(self.conv, t, r), r)

---------------------------------------------------------------------------
(* DWConv *)

\* DWConv.__init__ with groups = out_channels in the depthwise stage
DWConv_init_GroupsOut(in_channels, out_channels, ksize, stride, act) ==
    LET dconv == BaseConv_init(in_channels, in_channels, ksize, stride, out_channels, FALSE, act)
        pconv == BaseConv_init(in_channels, out_channels, 1, 1, 1, FALSE, act)
    IN [kind |-> "DWConv", in_channels |-> in_channels, dconv |-> dconv, pconv |-> pconv,
        error |-> IF dconv.error # "" THEN dconv.error ELSE pconv.error]

DWConv_init(in_channels, out_channels, ksize, stride, act) ==
    LET dconv == BaseConv_init(in_channels, in_channels, ksize, stride, in_channels, FALSE, act)
        pconv == BaseConv_init(in_channels, out_channels, 1, 1, 1, FALSE, act)
    IN [kind |-> "DWConv", in_channels |-> in_channels, dconv |-> dconv, pconv |-> pconv,
        error |-> IF dconv.error # "" THEN dconv.error ELSE pconv.error]

DWConv_forward(self, t, r) == BaseConv_forward(self.pconv, BaseConv_forward(self.dconv, t, r), r)

\* calls a sub-module that is a BaseConv or a DWConv
Conv_forward(self, t, r) ==
    IF self.kind = "DWConv" THEN DWConv_forward(self, t, r) ELSE BaseConv_forward(self, t, r)

\* the first error raised by a sequence of constructor steps, "" when none
RECURSIVE FirstError(_)
FirstError(errors) ==
    IF errors = <<>> THEN ""
    ELSE IF errors[1] # "" THEN errors[1] ELSE FirstError(Tail(errors))

\* int(channels * expansion) for the expansion num / den
ScaleChannels(channels, expansion) == (channels * expansion[1]) \div expansion[2]

---------------------------------------------------------------------------
(* Bottleneck *)

\* Bottleneck.__init__ with use_add = shortcut, the channel test left out
Bottleneck_init_AddAlways(in_channels, out_channels, shortcut, expansion, depthwise, act, qat) ==
    LET hidden_channels == ScaleChannels(out_channels, expansion)
        conv1 == BaseConv_init(in_channels, hidden_channels, 1, 1, 1, FALSE, act)
        conv2 == IF depthwise THEN DWConv_init(hidden_channels, out_channels, 3, 1, act)
                 ELSE BaseConv_init(hidden_channels, out_channels, 3, 1, 1, FALSE, act)
    IN [kind |-> "Bottleneck", in_channels |-> in_channels,
        conv1 |-> conv1, conv2 |-> conv2,
        use_add |-> shortcut,
        qat |-> qat,
        error |-> FirstError(<<conv1.error, conv2.error>>)]

Bottleneck_init(in_channels, out_channels, shortcut, expansion, depthwise, act, qat) ==
    LET hidden_channels == ScaleChannels(out_channels, expansion)
        conv1 == BaseConv_init(in_channels, hidden_channels, 1, 1, 1, FALSE, act)
        conv2 == IF depthwise THEN DWConv_init(hidden_channels, out_channels, 3, 1, act)
                 ELSE BaseConv_init(hidden_channels, out_channels, 3, 1, 1, FALSE, act)
    IN [kind |-> "Bottleneck", in_channels |-> in_channels,
        conv1 |-> conv1, conv2 |-> conv2,
        use_add |-> (shortcut /\ in_channels = out_channels),
        qat |-> qat,
        error |-> FirstError(<<conv1.error, conv2.error>>)]

Bottleneck_forward(self, t, r) ==
    LET y == Conv_forward(self.conv2, BaseConv_forward(self.conv1, t, r), r)
    IN IF self.use_add
       THEN IF self.qat THEN qat_func_add(y, t) ELSE torch_add(y, t)
       ELSE y

---------------------------------------------------------------------------
(* SPPBottleneck *)

\* SPPBottleneck.__init__ with unpadded max-pools
SPPBottleneck_init_NoPadding(in_channels, out_channels, kernel_sizes, activation, qat) ==
    LET hidden_channels == in_channels \div 2
        conv1 == BaseConv_init(in_channels, hidden_channels, 1, 1, 1, FALSE, activation)
        m == [i \in 1..Len(kernel_sizes) |-> MaxPool2d(kernel_sizes[i], 1, 0)]
        conv2_channels == hidden_channels * (Len(kernel_sizes) + 1)
        conv2 == BaseConv_init(conv2_channels, out_channels, 1, 1, 1, FALSE, activation)
    IN [kind |-> "SPPBottleneck", in_channels |-> in_channels,
        qat |-> qat, conv1 |-> conv1, m |-> m, conv2 |-> conv2,
        error |-> FirstError(<<conv1.error, conv2.error>>)]

SPPBottleneck_init(in_channels, out_channels, kernel_sizes, activation, qat) ==
    LET hidden_channels == in_channels \div 2
        conv1 == BaseConv_init(in_channels, hidden_channels, 1, 1, 1, FALSE, activation)
        m == [i \in 1..Len(kernel_sizes) |-> MaxPool2d(kernel_sizes[i], 1, kernel_sizes[i] \div 2)]
        conv2_channels == hidden_channels * (Len(kernel_sizes) + 1)
        conv2 == BaseConv_init(conv2_channels, out_channels, 1, 1, 1, FALSE, activation)
    IN [kind |-> "SPPBottleneck", in_channels |-> in_channels,
        qat |-> qat, conv1 |-> conv1, m |-> m, conv2 |-> conv2,
        error |-> FirstError(<<conv1.error, conv2.error>>)]

SPPBottleneck_forward(self, t, r) ==
    LET x1 == BaseConv_forward(self.conv1, t, r)
        ts == <<x1>> \o [i \in 1..Len(self.m) |-> maxpool_call(self.m[i], x1, r)]
        x2 == IF self.qat THEN qat_func_cat(ts) ELSE torch_cat(ts)
    IN BaseConv_forward(self.conv2, x2, r)

---------------------------------------------------------------------------
(* SPPFBottleneck *)

SPPFBottleneck_init(in_channels, out_channels, kernel_sizes, activation, qat) ==
    LET hidden_channels == in_channels \div 2
        conv1 == BaseConv_init(in_channels, hidden_channels, 1, 1, 1, FALSE, activation)
        \* kernel_sizes[0], [1], [2]: a shorter tuple raises IndexError
        ks(i) == IF i <= Len(kernel_sizes) THEN kernel_sizes[i] ELSE 0
        spp0 == MaxPool2d(ks(1), 1, ks(1) \div 2)
        spp1 == MaxPool2d(ks(2), 1, ks(2) \div 2)
        spp2 == MaxPool2d(ks(3), 1, ks(3) \div 2)
        conv2_channels == hidden_channels * (Len(kernel_sizes) + 1)
        conv2 == BaseConv_init(conv2_channels, out_channels, 1, 1, 1, FALSE, activation)
    IN [kind |-> "SPPFBottleneck", in_channels |-> in_channels,
        qat |-> qat, conv1 |-> conv1,
        spp0 |-> spp0, spp1 |-> spp1, spp2 |-> spp2, conv2 |-> conv2,
        error |-> FirstError(<<conv1.error,
                               IF Len(kernel_sizes) < 3 THEN "IndexError" ELSE "",
                               conv2.error>>)]

\* SPPFBottleneck.forward with every pool reading conv1's output
SPPFBottleneck_forward_Parallel(self, t, r) ==
    LET x1 == BaseConv_forward(self.conv1, t, r)
        spp0 == maxpool_call(self.spp0, x1, r)
        spp1 == maxpool_call(self.spp1, x1, r)
        spp2 == maxpool_call(self.spp2, x1, r)
        x2 == IF self.qat THEN qat_func_cat(<<x1, spp0, spp1, spp2>>)
              ELSE torch_cat(<<x1, spp0, spp1, spp2>>)
    IN BaseConv_forward(self.conv2, x2, r)

SPPFBottleneck_forward(self, t, r) ==
    LET x1 == BaseConv_forward(self.conv1, t, r)
        spp0 == maxpool_call(self.spp0, x1, r)
        spp1 == maxpool_call(self.spp1, spp0, r)
        spp2 == maxpool_call(self.spp2, spp1, r)
        x2 == IF self.qat THEN qat_func_cat(<<x1, spp0, spp1, spp2>>)
              ELSE torch_cat(<<x1, spp0, spp1, spp2>>)
    IN BaseConv_forward(self.conv2, x2, r)

---------------------------------------------------------------------------
(* CSPLayer *)

\* nn.Sequential: each module is applied to the output of the one before
RECURSIVE Sequential_forward(_, _, _)
Sequential_forward(modules, t, r) ==
    IF modules = <<>> THEN t
    ELSE Sequential_forward(Tail(modules), Bottleneck_forward(modules[1], t, r), r)

CSPLayer_init(in_channels, out_channels, n, shortcut, expansion, depthwise, act, qat) ==
    LET hidden_channels == ScaleChannels(out_channels, expansion)
        conv1 == BaseConv_init(in_channels, hidden_channels, 1, 1, 1, FALSE, act)
        conv2 == BaseConv_init(in_channels, hidden_channels, 1, 1, 1, FALSE, act)
        conv3 == BaseConv_init(2 * hidden_channels, out_channels, 1, 1, 1, FALSE, act)
        module_list == [i \in 1..n |->
            Bottleneck_init(hidden_channels, hidden_channels, shortcut, <<1, 1>>, depthwise, act, qat)]
    IN [kind |-> "CSPLayer", in_channels |-> in_channels,
        qat |-> qat, conv1 |-> conv1, conv2 |-> conv2, conv3 |-> conv3, m |-> module_list,
        error |-> FirstError(<<conv1.error, conv2.error, conv3.error>>
                             \o [i \in 1..n |-> module_list[i].error])]

CSPLayer_forward(self, t, r) ==
    LET x_1 == BaseConv_forward(self.conv1, t, r)
        x_2 == BaseConv_forward(self.conv2, t, r)
        x_1m == Sequential_forward(self.m, x_1, r)
        x3 == qat_func_cat(<<x_1m, x_2>>)
    IN BaseConv_forward(self.conv3, x3, r)

---------------------------------------------------------------------------
(* Focus *)

Focus_init(in_channels, out_channels, ksize, stride, act, qat) ==
    LET conv == BaseConv_init(in_channels * 4, out_channels, ksize, stride, 1, FALSE, act)
    IN [kind |-> "Focus", in_channels |-> in_channels,
        conv |-> conv, qat |-> qat, error |-> conv.error]

\* Focus.forward concatenating top-left, top-right, bottom-left, bottom-right
Focus_forward_RowMajor(self, t, r) ==
    LET patch_top_left == slice(t, 0, 0)
        patch_top_right == slice(t, 0, 1)
        patch_bot_left == slice(t, 1, 0)
        patch_bot_right == slice(t, 1, 1)
        parts == <<patch_top_left, patch_top_right, patch_bot_left, patch_bot_right>>
        x1 == IF self.qat THEN qat_func_cat(parts) ELSE torch_cat(parts)
    IN BaseConv_forward(self.conv, x1, r)

Focus_forward(self, t, r) ==
    LET patch_top_left == slice(t, 0, 0)
        patch_top_right == slice(t, 0, 1)
        patch_bot_left == slice(t, 1, 0)
        patch_bot_right == slice(t, 1, 1)
        parts == <<patch_top_left, patch_bot_left, patch_top_right, patch_bot_right>>
        x1 == IF self.qat THEN qat_func_cat(parts) ELSE torch_cat(parts)
    IN BaseConv_forward(self.conv, x1, r)

---------------------------------------------------------------------------
(* The life of one block: construction, forward calls, release *)

Init ==
    /\ pc = "idle"
    /\ req = NoRequest
    /\ blk = NoBlock
    /\ err = ""
    /\ x = NoTensor
    /\ out = NoTensor

\* a constructor call with the arguments args: it returns the block b or raises
Construct(b, args) ==
    /\ req' = [kind |-> b.kind, args |-> args]
    /\ IF b.error # ""
       THEN /\ pc' = "failed"
            /\ blk' = NoBlock
            /\ err' = b.error
       ELSE /\ pc' = "built"
            /\ blk' = b
            /\ err' = ""
    /\ UNCHANGED <<x, out>>

\* a call of the block's method on t, which evaluates the expression y: out is
\* its result, or the primitive call that raised
Run(kind, t, y, method) ==
    /\ blk.kind = kind
    /\ x' = t
    /\ IF ShapeOf(y) = BadShape
       THEN /\ out' = FailedAt(y)
            /\ err' = "RuntimeError"
       ELSE /\ out' = y
            /\ err' = ""
    /\ pc' = method
    /\ UNCHANGED <<req, blk>>

\* the call returns: the instance is unchanged and can be called again
Return ==
    /\ pc \in {"forward", "fuseforward"}
    /\ pc' = "built"
    /\ err' = ""
    /\ x' = NoTensor
    /\ out' = NoTensor
    /\ UNCHANGED <<req, blk>>

Release ==
    /\ pc # "idle"
    /\ pc' = "idle"
    /\ req' = NoRequest
    /\ blk' = NoBlock
    /\ err' = ""
    /\ x' = NoTensor
    /\ out' = NoTensor

New_BaseConv ==
    /\ pc = "idle"
    /\ \E i \in Channels, o \in Channels, k \in KSizes, s \in Strides, a \in ActNames :
        \E g \in {d \in 1..i : i % d = 0 /\ o % d = 0} :
            Construct(BaseConv_init(i, o, k, s, g, FALSE, a),
                      [in_channels |-> i, out_channels |-> o, ksize |-> k, stride |-> s,
                       groups |-> g, act |-> a])

New_DWConv ==
    /\ pc = "idle"
    /\ \E i \in Channels, o \in Channels, k \in KSizes, s \in Strides, a \in ActNames :
        Construct(DWConv_init(i, o, k, s, a),
                  [in_channels |-> i, out_channels |-> o, ksize |-> k, stride |-> s, act |-> a])

Forward_BaseConv ==
    /\ pc = "built"
    /\ \E t \in InputsOf(blk, "BaseConv"), r \in Pats :
        Run("BaseConv", t, BaseConv_forward(blk, t, r), "forward")

Fuseforward_BaseConv ==
    /\ pc = "built"
    /\ \E t \in InputsOf(blk, "BaseConv"), r \in Pats :
        Run("BaseConv", t, BaseConv_fuseforward(blk, t, r), "fuseforward")

Forward_DWConv ==
    /\ pc = "built"
    /\ \E t \in InputsOf(blk, "DWConv"), r \in Pats :
        Run("DWConv", t, DWConv_forward(blk, t, r), "forward")

New_Bottleneck ==
    /\ pc = "idle"
    /\ \E i \in Channels, o \in Channels, sc \in Booleans, e \in Expansions,
       dw \in Booleans, a \in ActNames, q \in Booleans :
        Construct(Bottleneck_init(i, o, sc, e, dw, a, q),
                  [in_channels |-> i, out_channels |-> o, shortcut |-> sc, expansion |-> e,
                   depthwise |-> dw, act |-> a, qat |-> q])

New_SPPBottleneck ==
    /\ pc = "idle"
    /\ \E i \in Channels, o \in Channels, ks \in KernelTuples, a \in ActNames, q \in Booleans :
        Construct(SPPBottleneck_init(i, o, ks, a, q),
                  [in_channels |-> i, out_channels |-> o, kernel_sizes |-> ks, act |-> a, qat |-> q])

New_SPPFBottleneck ==
    /\ pc = "idle"
    /\ \E i \in Channels, o \in Channels, ks \in KernelTuples, a \in ActNames, q \in Booleans :
        Construct(SPPFBottleneck_init(i, o, ks, a, q),
                  [in_channels |-> i, out_channels |-> o, kernel_sizes |-> ks, act |-> a, qat |-> q])

New_CSPLayer ==
    /\ pc = "idle"
    /\ \E i \in Channels, o \in Channels, n \in 0..MaxN, sc \in Booleans, e \in Expansions,
       dw \in Booleans, a \in ActNames, q \in Booleans :
        Construct(CSPLayer_init(i, o, n, sc, e, dw, a, q),
                  [in_channels |-> i, out_channels |-> o, n |-> n, shortcut |-> sc, expansion |-> e,
                   depthwise |-> dw, act |-> a, qat |-> q])

New_Focus ==
    /\ pc = "idle"
    /\ \E i \in Channels, o \in Channels, k \in KSizes, s \in Strides, a \in ActNames, q \in Booleans :
        Construct(Focus_init(i, o, k, s, a, q),
                  [in_channels |-> i, out_channels |-> o, ksize |-> k, stride |-> s, act |-> a, qat |-> q])

Forward_Bottleneck ==
    /\ pc = "built"
    /\ \E t \in InputsOf(blk, "Bottleneck"), r \in Pats :
        Run("Bottleneck", t, Bottleneck_forward(blk, t, r), "forward")

Forward_SPPBottleneck ==
    /\ pc = "built"
    /\ \E t \in InputsOf(blk, "SPPBottleneck"), r \in Pats :
        Run("SPPBottleneck", t, SPPBottleneck_forward(blk, t, r), "forward")

Forward_SPPFBottleneck ==
    /\ pc = "built"
    /\ \E t \in InputsOf(blk, "SPPFBottleneck"), r \in Pats :
        Run("SPPFBottleneck", t, SPPFBottleneck_forward(blk, t, r), "forward")

Forward_CSPLayer ==
    /\ pc = "built"
    /\ \E t \in InputsOf(blk, "CSPLayer"), r \in Pats :
        Run("CSPLayer", t, CSPLayer_forward(blk, t, r), "forward")

Forward_Focus ==
    /\ pc = "built"
    /\ \E t \in InputsOf(blk, "Focus"), r \in Pats :
        Run("Focus", t, Focus_forward(blk, t, r), "forward")

Next ==
    \/ New_BaseConv
    \/ New_DWConv
    \/ New_Bottleneck
    \/ New_SPPBottleneck
    \/ New_SPPFBottleneck
    \/ New_CSPLayer
    \/ New_Focus
    \/ Forward_BaseConv
    \/ Fuseforward_BaseConv
    \/ Forward_DWConv
    \/ Forward_Bottleneck
    \/ Forward_SPPBottleneck
    \/ Forward_SPPFBottleneck
    \/ Forward_CSPLayer
    \/ Forward_Focus
    \/ Return
    \/ Release

Spec == Init /\ [][Next]_vars

---------------------------------------------------------------------------
(* Properties *)

Called == pc \in {"forward", "fuseforward"}

\* the tensor handed to the block's last BaseConv: the operand of its conv
\* call, or the concatenation itself when the concatenation raised
CatOf(t) ==
    IF t.op = "act" THEN t.args[1].args[1].args[1]
    ELSE IF t.op = "conv" THEN t.args[1]
    ELSE t

RECURSIVE CountOp(_, _)
RECURSIVE CountOpSeq(_, _)
CountOp(t, ops) ==
    IF t.op = "input" THEN 0
    ELSE (IF t.op \in ops THEN 1 ELSE 0) + CountOpSeq(t.args, ops)
CountOpSeq(ts, ops) ==
    IF ts = <<>> THEN 0 ELSE CountOp(ts[1], ops) + CountOpSeq(Tail(ts), ops)

Indices(shape) == (0..(shape[1] - 1)) \X (0..(shape[2] - 1)) \X (0..(shape[3] - 1)) \X (0..(shape[4] - 1))

\* C1: in every forward call of a block that carries a qat flag (Bottleneck,
\* SPPBottleneck, SPPFBottleneck, CSPLayer, Focus) the add / concatenate step
\* goes through qat_func.add / qat_func.cat when qat is true and through the
\* plain y + x / torch.cat when qat is false.
C1_CombinerFollowsQatFlag ==
    /\ (pc = "forward" /\ blk.kind = "Bottleneck" /\ blk.use_add)
         => out.op = (IF blk.qat THEN "qat_func.add" ELSE "+")
    /\ (pc = "forward" /\ blk.kind \in {"SPPBottleneck", "SPPFBottleneck", "CSPLayer", "Focus"})
         => CatOf(out).op = (IF blk.qat THEN "qat_func.cat" ELSE "torch.cat")

C3_ConcatWidthMatchesConv2 ==
    (pc = "forward" /\ blk.kind \in {"SPPBottleneck", "SPPFBottleneck"}
        /\ ShapeOf(CatOf(out)) # BadShape)
        => LET width == ShapeOf(CatOf(out))[2]
               hidden == blk.in_channels \div 2
           IN /\ blk.kind = "SPPBottleneck" => width = hidden * (Len(blk.m) + 1)
              /\ blk.kind = "SPPFBottleneck" => width = hidden * 4
              /\ width = blk.conv2.conv.in_channels

\* C4: Bottleneck.forward(x) is conv2(conv1(x)) plus exactly one added x when
\* shortcut is true and in_channels = out_channels, and conv2(conv1(x)) with no
\* add otherwise; when conv2(conv1(x)) is the zero tensor and the shortcut is
\* active the output equals the input.
C4_BottleneckShortcut ==
    (pc = "forward" /\ blk.kind = "Bottleneck")
        => LET active == req.args.shortcut /\ req.args.in_channels = req.args.out_channels
               y == IF active THEN out.args[1] ELSE out
           IN /\ err = ""
              /\ y.op = "act"
              /\ y = Conv_forward(blk.conv2, BaseConv_forward(blk.conv1, x, y.val), y.val)
              /\ CountOp(out, {"+", "qat_func.add"}) = (IF active THEN 1 ELSE 0)
              /\ active =>
                    /\ out.op \in {"+", "qat_func.add"}
                    /\ out.args = <<y, x>>
                    /\ \A i \in Indices(ShapeOf(x)) :
                          Elem(out, i[1], i[2], i[3], i[4])
                              = Elem(y, i[1], i[2], i[3], i[4]) + Elem(x, i[1], i[2], i[3], i[4])
                    /\ y.val = 0 =>
                          \A i \in Indices(ShapeOf(x)) :
                              Elem(out, i[1], i[2], i[3], i[4]) = Elem(x, i[1], i[2], i[3], i[4])

C4_Witness ==
    /\ pc = "forward"
    /\ blk.kind = "Bottleneck"
    /\ blk.use_add
    /\ x.pat = 1
    /\ out.op = "+"
    /\ out.args[1].val = 0
    /\ Elem(out, 0, 1, 1, 1) = Elem(x, 0, 1, 1, 1)
    /\ Elem(x, 0, 1, 1, 1) > 0

\* C5: for an input (B,C,H,W) with H and W even, Focus.forward hands its conv
\* a (B,4C,H/2,W/2) tensor, the channel concatenation of the sub-samples
\* top-left, bottom-left, top-right, bottom-right (in qat and plain mode
\* alike), and interleaving the four sub-samples in that order gives back the
\* input.
C5_FocusDeinterleave ==
    (pc = "forward" /\ blk.kind = "Focus" /\ x.shape[3] % 2 = 0 /\ x.shape[4] % 2 = 0)
        => LET c == CatOf(out)
               C == x.shape[2]
           IN /\ c.op \in {"torch.cat", "qat_func.cat"}
              /\ ShapeOf(c) = <<x.shape[1], 4 * C, x.shape[3] \div 2, x.shape[4] \div 2>>
              /\ c.args = <<slice(x, 0, 0), slice(x, 1, 0), slice(x, 0, 1), slice(x, 1, 1)>>
              /\ \A i \in Indices(x.shape) :
                    Elem(x, i[1], i[2], i[3], i[4])
                        = Elem(c, i[1], (2 * (i[4] % 2) + (i[3] % 2)) * C + i[2],
                               i[3] \div 2, i[4] \div 2)

C5_Witness ==
    /\ pc = "forward"
    /\ blk.kind = "Focus"
    /\ blk.qat
    /\ x.shape[3] = 4
    /\ x.shape[4] = 2
    /\ x.pat = 1
    /\ err = ""
    /\ Elem(CatOf(out), 0, x.shape[2], 0, 0) = Elem(x, 0, 0, 1, 0)

SupportedActs == {"silu", "relu", "lrelu"}

\* C7: get_activation returns a transform for exactly "silu", "relu" and
\* "lrelu" and raises for any other name; a constructor call of any unit with
\* an unsupported name raises that error and leaves no instance, so no forward
\* call ever raises it.
C7_ActivationRejectedAtConstruction ==
    (pc # "idle")
        => /\ (err = "AttributeError") = (req.args.act \notin SupportedActs)
           /\ err = "AttributeError" => (pc = "failed" /\ blk = NoBlock)
           /\ (pc \in {"built", "forward", "fuseforward"}) => req.args.act \in SupportedActs
           /\ req.kind = "BaseConv" => ((pc = "failed") = (req.args.act \notin SupportedActs))

C7_Witness ==
    /\ pc = "failed"
    /\ req.kind = "Focus"
    /\ req.args.act = "gelu"
    /\ err = "AttributeError"
    /\ blk = NoBlock

\* C8: SPPBottleneck.forward feeds every max-pool with conv1's output and
\* concatenates [conv1_out, pool_1(conv1_out), ..., pool_K(conv1_out)];
\* SPPFBottleneck.forward chains its pools and concatenates
\* [conv1_out, pool1, pool2, pool3]; both apply conv2 once, to the
\* concatenation.
C8_PoolTopology ==
    (pc = "forward" /\ blk.kind \in {"SPPBottleneck", "SPPFBottleneck"})
        => LET c == CatOf(out)
               x1 == c.args[1]
           IN /\ c.op \in {"torch.cat", "qat_func.cat"}
              /\ x1 = BaseConv_forward(blk.conv1, x, x1.val)
              /\ blk.kind = "SPPBottleneck" =>
                    /\ Len(c.args) = Len(req.args.kernel_sizes) + 1
                    /\ \A i \in 1..Len(req.args.kernel_sizes) :
                          /\ c.args[i + 1].op = "maxpool"
                          /\ c.args[i + 1].m.kernel_size = req.args.kernel_sizes[i]
                          /\ c.args[i + 1].args = <<x1>>
              /\ blk.kind = "SPPFBottleneck" =>
                    /\ Len(c.args) = 4
                    /\ \A i \in 1..3 :
                          /\ c.args[i + 1].op = "maxpool"
                          /\ c.args[i + 1].m.kernel_size = req.args.kernel_sizes[i]
                          /\ c.args[i + 1].args = <<c.args[i]>>
              /\ err = "" =>
                    /\ out.op = "act"
                    /\ out.args[1].op = "bn"
                    /\ out.args[1].args[1].op = "conv"
                    /\ out.args[1].args[1].m = blk.conv2.conv
                    /\ out.args[1].args[1].args = <<c>>
                    /\ CountOp(c, {"conv"}) = Len(c.args)
                    /\ CountOp(x1, {"conv"}) = 1

C8_Witness ==
    /\ pc = "forward"
    /\ blk.kind = "SPPFBottleneck"
    /\ err = ""
    /\ req.args.kernel_sizes = <<3, 3, 3>>
    /\ CatOf(out).args[4].args[1].args[1].args[1] = CatOf(out).args[1]
    /\ ShapeOf(x)[3] = 3

\* C9: on every BaseConv instance forward and fuseforward can both be called;
\* forward(x) is act(bn(conv(x))), fuseforward(x) is act(conv(x)) with no
\* batch-norm call, and both use the instance's own conv and act.
C9_ForwardAndFuseforward ==
    /\ (pc = "built" /\ blk.kind = "BaseConv")
          => (ENABLED Forward_BaseConv /\ ENABLED Fuseforward_BaseConv)
    /\ (Called /\ blk.kind = "BaseConv" /\ err # "")
          => /\ out.op = "conv"
             /\ out.m = blk.conv
             /\ out.args = <<x>>
    /\ (pc = "forward" /\ blk.kind = "BaseConv" /\ err = "")
          => /\ out.op = "act" /\ out.name = blk.act
             /\ out.args[1].op = "bn" /\ out.args[1].m = blk.bn
             /\ out.args[1].args[1].op = "conv" /\ out.args[1].args[1].m = blk.conv
             /\ out.args[1].args[1].args = <<x>>
    /\ (pc = "fuseforward" /\ blk.kind = "BaseConv" /\ err = "")
          => /\ out.op = "act" /\ out.name = blk.act
             /\ out.args[1].op = "conv" /\ out.args[1].m = blk.conv
             /\ out.args[1].args = <<x>>
             /\ CountOp(out, {"bn"}) = 0

C9_Witness ==
    /\ pc = "fuseforward"
    /\ blk.kind = "BaseConv"
    /\ err = ""
    /\ out.args[1].op = "conv"
    /\ blk.conv.kernel_size = 3

\* the max-pool calls among the operands of a concatenation
Pools(c) == {c.args[i] : i \in {j \in 1..Len(c.args) : c.args[j].op = "maxpool"}}

PoolsPreserveSize(c) ==
    /\ ShapeOf(c) # BadShape
    /\ \A p \in Pools(c) :
          /\ ShapeOf(p)[3] = ShapeOf(p.args[1])[3]
          /\ ShapeOf(p)[4] = ShapeOf(p.args[1])[4]

\* C10 (as claimed): for every positive kernel size given to SPPBottleneck or
\* SPPFBottleneck each max-pool returns a tensor with the height and width of
\* its input, and the concatenation's operands agree in height and width.
C10_PoolsPreserveSizeAnyKernel ==
    (pc = "forward" /\ blk.kind \in {"SPPBottleneck", "SPPFBottleneck"})
        => PoolsPreserveSize(CatOf(out))

\* C10 (amended): for every odd positive kernel size given to SPPBottleneck or
\* SPPFBottleneck each max-pool returns a tensor with the height and width of
\* its input, and the concatenation's operands agree in height and width.
C10_PoolsPreserveSizeOddKernel ==
    (pc = "forward" /\ blk.kind \in {"SPPBottleneck", "SPPFBottleneck"}
        /\ \A p \in Pools(CatOf(out)) : p.m.kernel_size % 2 = 1)
        => PoolsPreserveSize(CatOf(out))

C10_Witness ==
    /\ pc = "forward"
    /\ blk.kind = "SPPBottleneck"
    /\ req.args.kernel_sizes = <<3, 3>>
    /\ Cardinality(Pools(CatOf(out))) = 1
    /\ Len(CatOf(out).args) = 3
    /\ err = ""
    /\ ShapeOf(CatOf(out)) = <<1, 3 * (blk.in_channels \div 2), 2, 4>>

====
